---- MODULE Spec2Model ----
(***************************************************************************)
(* Model of the AQI feature consolidation pipeline                         *)
(* (features/features/backfill.py): the store read, the training CSV load, *)
(* the live fetch, the pandas merge (concat, to_datetime, drop_duplicates, *)
(* sort_values, ffill, fillna) and the insert retry loop; of the scheduler *)
(* that runs it (scheduler.py); and of the raw provider logs               *)
(* (data_fetch/fetch_*.py) with their snapshot loader                      *)
(* (features/features/features.py).                                        *)
(*                                                                         *)
(* A table (DataFrame) is a sequence of rows; a row is a record with the   *)
(* key timestamp_utc, one measurement column (aqi_aqicn, standing for all  *)
(* the measurement columns, which the code treats alike) and one calendar  *)
(* column (hour).                                                          *)
(***************************************************************************)
EXTENDS Integers, Sequences, FiniteSets, TLC

VARIABLES
    pc,            \* position of the backfill process in backfill.py
    run,           \* number of the current run of the script
    secrets,       \* TRUE iff the three required environment secrets are set
    csv_exists,    \* TRUE iff TRAIN_DATA_PATH exists
    csv_file,      \* rows of the training CSV file (timestamps as text)
    store,         \* rows of feature group aqi_features v1
    df_existing,   \* backfill(): fg.read()
    df_train,      \* backfill(): load_training_dataset()
    df_live,       \* backfill(): fetch_live_data()
    df_combined,   \* backfill(): the merged table
    dtypes,        \* dtype of each column of df_combined
    numeric_cols,  \* backfill(): the columns select_dtypes(np.number) selects
    weather,       \* fetch_live_data(): what fetch_current_weather() returned
    aqi,           \* fetch_live_data(): what fetch_current_aqi() returned
    failed_calls,  \* the provider calls of the run that raised
    attempt,       \* backfill(): the loop variable of the upload loop
    slept,         \* total time.sleep() time of the run
    insert_log,    \* outcome of every fg.insert call of the run, in order
    calls,         \* external calls of the run, in order
    exit_code,     \* exit status of the script's process, once it has exited
    store_at_start,\* the store's rows when the run started
    history,       \* one record per earlier run of the script
    sched_pc,      \* position of the scheduler process in scheduler.py
    clock,         \* seconds since the scheduler started
    next_run,      \* the job's next_run, kept by the schedule library
    children,      \* backfill subprocesses that have started and not exited
    starts,        \* the time each backfill subprocess was started
    finished,      \* one record per backfill subprocess that has exited
    raw_csv,       \* per provider, the CSV log the fetcher writes
    snapshot,      \* per provider, the parquet snapshot features.py keeps
    loaded,        \* per provider, the outcome of the last load call
    log_at_load,   \* per provider, data rows the CSV log held at that call
    fetch_log,     \* per provider, the outcome of every fetch, in order
    train_pc,      \* position of the training script in train_tf.py
    train_attempt, \* train_tf.py: the loop variable of the read loop
    train_slept,   \* total time.sleep() time of the training script
    read_log,      \* every fg.read call of the training script, in order
    train_df       \* train_tf.py: df, once a read has bound it

locals == <<df_existing, df_train, df_live, df_combined, dtypes, numeric_cols,
            weather, aqi, failed_calls, attempt, slept, insert_log, calls, exit_code>>

environment == <<secrets, csv_exists, csv_file>>

backfill_vars == <<pc, run, environment, store, locals, store_at_start, history>>

scheduler == <<sched_pc, clock, next_run, children, starts, finished>>

raw_data == <<raw_csv, snapshot, loaded, log_at_load, fetch_log>>

training == <<train_pc, train_attempt, train_slept, read_log, train_df>>

vars == <<backfill_vars, scheduler, raw_data, training>>

(***************************************************************************)
(* Bounds of the model                                                     *)
(***************************************************************************)
MaxT == 2          \* instants are 1..MaxT
MaxVal == 2        \* measurement values are 1..MaxVal
MaxExisting == 1   \* rows of the store table in the merge specification
MaxTrain == 2      \* rows of the training CSV in the merge specification
MaxRuns == 2       \* runs of the script
MaxRows == 1       \* rows of the store and of the CSV when the script starts

(***************************************************************************)
(* Values                                                                  *)
(***************************************************************************)
\* pandas NaT: what to_datetime(errors="coerce") makes of unparseable text
NaT == 0
\* a timestamp text of the CSV that does not parse
BadTs == -1
\* float NaN: a missing value of a numeric column
NaN == -1
\* Python None: a missing value the live row holds (an object-dtype column)
None == -2

Instants == 1..MaxT
Values == 1..MaxVal
Columns == {"aqi_aqicn", "hour"}

\* datetime.hour of an instant (instants count hours)
HourOf(t) == t % 24

Row(t, a, h) == [timestamp_utc |-> t, aqi_aqicn |-> a, hour |-> h]

\* pd.isna
IsNa(v) == v = NaN \/ v = None

\* rows the feature group can hold: typed timestamps, nullable numeric columns
StoreRows ==
    {Row(t, a, h) : t \in Instants, a \in Values \cup {NaN}, h \in {NaN}} \cup
    {Row(t, a, HourOf(t)) : t \in Instants, a \in Values \cup {NaN}}

\* rows of the CSV file as read_csv returns them: the timestamp is still text
CsvRows ==
    StoreRows \cup {Row(BadTs, a, NaN) : a \in Values \cup {NaN}}

\* the one-row frame fetch_live_data builds (backfill.py 76-99)
LiveRows == {Row(t, a, HourOf(t)) : t \in Instants, a \in Values \cup {None}}

RECURSIVE TablesUpTo(_, _)
TablesUpTo(rows, n) ==
    IF n = 0 THEN {<<>>}
    ELSE LET shorter == TablesUpTo(rows, n - 1)
         IN  shorter \cup {Append(s, r) : s \in {x \in shorter : Len(x) = n - 1}, r \in rows}

(***************************************************************************)
(* pandas operations, as backfill() uses them                              *)
(***************************************************************************)
Timestamps(df) == {df[i].timestamp_utc : i \in 1..Len(df)}

\* pd.to_datetime(col, utc=True, errors="coerce"): unparseable text and nulls
\* become NaT, instants stay
ParseTs(t) == IF t \in Instants THEN t ELSE NaT

ToDatetime(df) ==
    [i \in 1..Len(df) |-> [df[i] EXCEPT !.timestamp_utc = ParseTs(@)]]

\* dtype of column c in one frame of the concat
BlockDtype(df, c) ==
    IF \E i \in 1..Len(df) : df[i][c] = None THEN "object" ELSE "float64"

BlockIsNa(df, c) == \A i \in 1..Len(df) : IsNa(df[i][c])

\* result dtype of column c of pd.concat(frames): the common type of the
\* frames that are neither empty nor all-NA in c, or of all non-empty frames
\* when every one is all-NA; float64 with object gives object
ConcatDtype(c, frames) ==
    LET units == {k \in 1..Len(frames) : Len(frames[k]) > 0}
        nonNa == {k \in units : ~BlockIsNa(frames[k], c)}
        basis == IF nonNa # {} THEN nonNa ELSE units
    IN  IF \E k \in basis : BlockDtype(frames[k], c) = "object"
        THEN "object" ELSE "float64"

\* pd.concat([a, b, c], ignore_index=True): rows in argument order; a None
\* cast into a float64 column is NaN
PdConcat(frames) ==
    LET all == frames[1] \o frames[2] \o frames[3]
    IN  [i \in 1..Len(all) |->
            [col \in DOMAIN all[i] |->
                IF col \in Columns /\ all[i][col] = None
                   /\ ConcatDtype(col, frames) = "float64"
                THEN NaN ELSE all[i][col]]]

RECURSIVE Pick(_, _, _)
Pick(df, keep, i) ==
    IF i > Len(df) THEN <<>>
    ELSE (IF i \in keep THEN <<df[i]>> ELSE <<>>) \o Pick(df, keep, i + 1)

\* defective variant: drop_duplicates(keep="last") without subset, whole rows
\* compared
DropDuplicatesWholeRow(df) ==
    LET keep == {i \in 1..Len(df) : \A j \in (i + 1)..Len(df) : df[j] # df[i]}
    IN  Pick(df, keep, 1)

\* defective variant: keep="first"
DropDuplicatesKeepFirst(df) ==
    LET keep == {i \in 1..Len(df) :
                    \A j \in 1..(i - 1) :
                        df[j].timestamp_utc # df[i].timestamp_utc}
    IN  Pick(df, keep, 1)

\* defective variant: keep=False, every row of a repeated key is dropped
DropDuplicatesKeepNone(df) ==
    LET keep == {i \in 1..Len(df) :
                    \A j \in 1..Len(df) :
                        j # i => df[j].timestamp_utc # df[i].timestamp_utc}
    IN  Pick(df, keep, 1)

\* defective variant: rows with a NaT key are left out of the comparison and
\* all kept
DropDuplicatesSkipNaT(df) ==
    LET keep == {i \in 1..Len(df) :
                    \/ df[i].timestamp_utc = NaT
                    \/ \A j \in (i + 1)..Len(df) :
                           df[j].timestamp_utc # df[i].timestamp_utc}
    IN  Pick(df, keep, 1)

\* df.drop_duplicates(subset=["timestamp_utc"], keep="last"): a row stays iff
\* no later row has an equal key; NaT keys count as equal to each other
DropDuplicatesKeepLast(df) ==
    LET keep == {i \in 1..Len(df) :
                    \A j \in (i + 1)..Len(df) :
                        df[j].timestamp_utc # df[i].timestamp_utc}
    IN  Pick(df, keep, 1)

\* sort order of timestamp keys: ascending, NaT last (na_position="last")
Before(a, b) == a # NaT /\ (b = NaT \/ a < b)

InsertSorted(row, s) ==
    LET k == Cardinality({i \in 1..Len(s) :
                             ~Before(row.timestamp_utc, s[i].timestamp_utc)})
    IN  SubSeq(s, 1, k) \o <<row>> \o SubSeq(s, k + 1, Len(s))

\* defective variant: the sorted frame is not assigned back
SortValuesDiscarded(df) == df

RECURSIVE SortValues(_)
\* df.sort_values("timestamp_utc")
SortValues(df) ==
    IF df = <<>> THEN <<>>
    ELSE InsertSorted(df[Len(df)], SortValues(SubSeq(df, 1, Len(df) - 1)))

SetMax(S) == CHOOSE x \in S : \A y \in S : y <= x

\* the value ffill puts at row i of column c: the last non-missing value
\* above it, or still missing
LastValid(df, c, i) ==
    LET prev == {j \in 1..(i - 1) : ~IsNa(df[j][c])}
    IN  IF prev = {} THEN df[i][c] ELSE df[SetMax(prev)][c]

\* df[cols] = df[cols].ffill()
Ffill(df, cols) ==
    [i \in 1..Len(df) |->
        [c \in DOMAIN df[i] |->
            IF c \in cols /\ IsNa(df[i][c]) THEN LastValid(df, c, i)
            ELSE df[i][c]]]

\* df[cols] = df[cols].fillna(0)
Fillna(df, cols) ==
    [i \in 1..Len(df) |->
        [c \in DOMAIN df[i] |->
            IF c \in cols /\ IsNa(df[i][c]) THEN 0 ELSE df[i][c]]]

\* df.select_dtypes(include=[np.number]).columns
SelectNumeric(dt) == {c \in Columns : dt[c] = "float64"}

(***************************************************************************)
(* The script's steps outside the merge                                    *)
(***************************************************************************)
\* range(1, 4): the upload loop makes attempts 1, 2, 3
MaxAttempts == 3
\* time.sleep(8)
SleepSeconds == 8
\* exit status of a process that has not exited
NotExited == -1

\* A provider's answer: ok is FALSE when requests.get, raise_for_status or
\* response.json() raises (network error, timeout, HTTP error status,
\* malformed JSON); body is the decoded JSON otherwise.
\* A weather body is a mapping: empty, or with keys, with or without "main".
WeatherEmpty == [empty |-> TRUE, main |-> FALSE]
WeatherBodies == {[empty |-> FALSE, main |-> m] : m \in BOOLEAN}
WeatherResponses ==
    {[ok |-> FALSE, body |-> WeatherEmpty]} \cup
    {[ok |-> TRUE, body |-> b] : b \in WeatherBodies}

\* The "data" part of an air-quality body: a mapping (empty, or with keys,
\* whose "aqi" is a value or absent), or a string such as "Invalid key".
AqiEmpty == [type |-> "dict", empty |-> TRUE, aqi |-> None]
AqiData ==
    {[type |-> "dict", empty |-> FALSE, aqi |-> v] : v \in Values \cup {None}} \cup
    {[type |-> "str", empty |-> FALSE, aqi |-> None]}
AqiResponses ==
    {[ok |-> FALSE, body |-> AqiEmpty]} \cup
    {[ok |-> TRUE, body |-> d] : d \in AqiData}

NoWeather == WeatherEmpty
NoAqi == AqiEmpty

\* fetch_current_weather(): the body, or {} when the call raised
FetchCurrentWeather(resp) == IF resp.ok THEN resp.body ELSE WeatherEmpty

\* fetch_current_aqi(): the body's "data", or {} when the call raised
FetchCurrentAqi(resp) == IF resp.ok THEN resp.body ELSE AqiEmpty

\* the provider calls that raised
Raised(wr, ar) ==
    (IF wr.ok THEN {} ELSE {"weather"}) \cup (IF ar.ok THEN {} ELSE {"aqi"})

\* Python's "not x" for the two results
Falsy(x) == x.empty

\* The feature group's write: rows are merged into the stored table keyed by
\* timestamp_utc, a written row replacing the stored row of the same key.
Upsert(st, df) ==
    SelectSeq(st, LAMBDA r : r.timestamp_utc \notin Timestamps(df)) \o df

ResetLocals ==
    /\ df_existing' = <<>>
    /\ df_train' = <<>>
    /\ df_live' = <<>>
    /\ df_combined' = <<>>
    /\ dtypes' = [c \in Columns |-> "float64"]
    /\ numeric_cols' = {}
    /\ weather' = NoWeather
    /\ aqi' = NoAqi
    /\ failed_calls' = {}
    /\ attempt' = 1
    /\ slept' = 0
    /\ insert_log' = <<>>
    /\ calls' = <<>>
    /\ exit_code' = NotExited

\* defective variant: the secrets are not checked at import
KeyCheckSkipped ==
    /\ pc = "key_check"
    /\ pc' = "read_store"
    /\ UNCHANGED <<training, scheduler, raw_data, run, environment, store, locals, store_at_start, history>>

\* backfill.py 35-36: the key check at import
KeyCheck ==
    /\ pc = "key_check"
    /\ IF secrets
       THEN pc' = "read_store" /\ exit_code' = exit_code
       ELSE pc' = "exited" /\ exit_code' = 1
    /\ UNCHANGED <<training, scheduler, raw_data, run, environment, store, df_existing, df_train, df_live,
                   df_combined, dtypes, numeric_cols, weather, aqi, failed_calls,
                   attempt, slept, insert_log, calls, store_at_start, history>>

\* backfill.py 121-126: login, get the feature group, read it
ReadStore ==
    /\ pc = "read_store"
    /\ df_existing' = store
    /\ calls' = calls \o <<"hopsworks.login", "fg.read">>
    /\ pc' = "load_training_dataset"
    /\ UNCHANGED <<training, scheduler, raw_data, run, environment, store, df_train, df_live, df_combined,
                   dtypes, numeric_cols, weather, aqi, failed_calls, attempt, slept,
                   insert_log, exit_code, store_at_start, history>>

\* backfill.py 107-114 and 130
LoadTrainingDataset ==
    /\ pc = "load_training_dataset"
    /\ IF csv_exists
       THEN /\ df_train' = ToDatetime(csv_file)
            /\ calls' = Append(calls, "read_csv")
            /\ pc' = "fetch_live_data"
            /\ exit_code' = exit_code
       ELSE /\ df_train' = df_train
            /\ calls' = calls
            /\ pc' = "exited"
            /\ exit_code' = 1
    /\ UNCHANGED <<training, scheduler, raw_data, run, environment, store, df_existing, df_live, df_combined,
                   dtypes, numeric_cols, weather, aqi, failed_calls, attempt, slept,
                   insert_log, store_at_start, history>>

\* defective variant: "if not weather and not aqi"
FetchLiveDataAnd ==
    /\ pc = "fetch_live_data"
    /\ \E wr \in WeatherResponses, ar \in AqiResponses, now \in Instants :
          LET w == FetchCurrentWeather(wr)
              a == FetchCurrentAqi(ar)
          IN  /\ weather' = w
              /\ aqi' = a
              /\ failed_calls' = Raised(wr, ar)
              /\ calls' = calls \o <<"weather.get", "aqi.get">>
              /\ IF Falsy(w) /\ Falsy(a)
                 THEN df_live' = <<>> /\ pc' = "concat" /\ exit_code' = exit_code
                 ELSE IF a.type = "str"
                 THEN df_live' = <<>> /\ pc' = "exited" /\ exit_code' = 1
                 ELSE /\ df_live' = <<Row(now, a.aqi, HourOf(now))>>
                      /\ pc' = "concat"
                      /\ exit_code' = exit_code
    /\ UNCHANGED <<training, scheduler, raw_data, run, environment, store, df_existing, df_train, df_combined,
                   dtypes, numeric_cols, attempt, slept, insert_log,
                   store_at_start, history>>

\* defective variant: the provider calls are made outside any try/except
FetchLiveDataUncaught ==
    /\ pc = "fetch_live_data"
    /\ \E wr \in WeatherResponses, ar \in AqiResponses, now \in Instants :
          LET w == FetchCurrentWeather(wr)
              a == FetchCurrentAqi(ar)
          IN  /\ weather' = w
              /\ aqi' = a
              /\ failed_calls' = Raised(wr, ar)
              /\ calls' = calls \o <<"weather.get", "aqi.get">>
              /\ IF ~wr.ok \/ ~ar.ok \/ a.type = "str"
                 THEN df_live' = <<>> /\ pc' = "exited" /\ exit_code' = 1
                 ELSE IF Falsy(w) \/ Falsy(a)
                 THEN df_live' = <<>> /\ pc' = "concat" /\ exit_code' = exit_code
                 ELSE /\ df_live' = <<Row(now, a.aqi, HourOf(now))>>
                      /\ pc' = "concat"
                      /\ exit_code' = exit_code
    /\ UNCHANGED <<training, scheduler, raw_data, run, environment, store, df_existing, df_train, df_combined,
                   dtypes, numeric_cols, attempt, slept, insert_log,
                   store_at_start, history>>

\* backfill.py 41-102 and 131: both providers are called; a call that raises
\* is logged and gives {}; with either result empty the frame is empty;
\* otherwise the row is built with .get() on the results, which raises
\* AttributeError when the air-quality data is not a mapping.  The row's
\* weather fields (None when the body has no "main") are measurement columns
\* like aqi_aqicn and are not kept in the model's row.
FetchLiveData ==
    /\ pc = "fetch_live_data"
    /\ \E wr \in WeatherResponses, ar \in AqiResponses, now \in Instants :
          LET w == FetchCurrentWeather(wr)
              a == FetchCurrentAqi(ar)
          IN  /\ weather' = w
              /\ aqi' = a
              /\ failed_calls' = Raised(wr, ar)
              /\ calls' = calls \o <<"weather.get", "aqi.get">>
              /\ IF Falsy(w) \/ Falsy(a)
                 THEN df_live' = <<>> /\ pc' = "concat" /\ exit_code' = exit_code
                 ELSE IF a.type = "str"
                 THEN df_live' = <<>> /\ pc' = "exited" /\ exit_code' = 1
                 ELSE /\ df_live' = <<Row(now, a.aqi, HourOf(now))>>
                      /\ pc' = "concat"
                      /\ exit_code' = exit_code
    /\ UNCHANGED <<training, scheduler, raw_data, run, environment, store, df_existing, df_train, df_combined,
                   dtypes, numeric_cols, attempt, slept, insert_log,
                   store_at_start, history>>

\* defective variant: the loop sleeps after the last failed attempt too, then
\* raises
InsertAttemptSleepAlways ==
    /\ pc = "insert"
    /\ \E ok \in BOOLEAN, n \in 0..Len(df_combined) :
          /\ ok => n = Len(df_combined)
          /\ store' = Upsert(store, SubSeq(df_combined, 1, n))
          /\ insert_log' = Append(insert_log, IF ok THEN "ok" ELSE "failed")
          /\ IF ok
             THEN /\ calls' = Append(calls, "fg.insert")
                  /\ pc' = "exited" /\ exit_code' = 0
                  /\ attempt' = attempt /\ slept' = slept
             ELSE IF attempt < MaxAttempts
             THEN /\ calls' = calls \o <<"fg.insert", "time.sleep">>
                  /\ pc' = "insert" /\ exit_code' = exit_code
                  /\ attempt' = attempt + 1 /\ slept' = slept + SleepSeconds
             ELSE /\ calls' = calls \o <<"fg.insert", "time.sleep">>
                  /\ pc' = "exited" /\ exit_code' = 1
                  /\ attempt' = attempt /\ slept' = slept + SleepSeconds
    /\ UNCHANGED <<training, scheduler, raw_data, run, environment, df_existing, df_train, df_live, df_combined,
                   dtypes, numeric_cols, weather, aqi, failed_calls, store_at_start,
                   history>>

\* backfill.py 148-159, one iteration of the upload loop: fg.insert either
\* returns (the table is upserted; break, and the script ends with status 0)
\* or raises, having committed none, some or all of the rows; after a failed
\* attempt 1 or 2 the loop sleeps and goes on, after a failed attempt 3 it
\* re-raises and the script ends with status 1
\* defective variant: a retry resumes after the rows the failed attempt
\* committed and submits only the rest of the table
InsertAttemptResume ==
    /\ pc = "insert"
    /\ \E ok \in BOOLEAN, n \in 0..Len(df_combined) :
          /\ ok => n = Len(df_combined)
          /\ store' = Upsert(store, SubSeq(df_combined, 1, n))
          /\ insert_log' = Append(insert_log, IF ok THEN "ok" ELSE "failed")
          /\ IF ok
             THEN /\ calls' = Append(calls, "fg.insert")
                  /\ pc' = "exited" /\ exit_code' = 0
                  /\ attempt' = attempt /\ slept' = slept
                  /\ df_combined' = df_combined
             ELSE IF attempt < MaxAttempts
             THEN /\ calls' = calls \o <<"fg.insert", "time.sleep">>
                  /\ pc' = "insert" /\ exit_code' = exit_code
                  /\ attempt' = attempt + 1 /\ slept' = slept + SleepSeconds
                  /\ df_combined' = SubSeq(df_combined, n + 1, Len(df_combined))
             ELSE /\ calls' = Append(calls, "fg.insert")
                  /\ pc' = "exited" /\ exit_code' = 1
                  /\ attempt' = attempt /\ slept' = slept
                  /\ df_combined' = df_combined
    /\ UNCHANGED <<training, scheduler, raw_data, run, environment, df_existing, df_train, df_live,
                   dtypes, numeric_cols, weather, aqi, failed_calls, store_at_start,
                   history>>

InsertAttempt ==
    /\ pc = "insert"
    /\ \E ok \in BOOLEAN, n \in 0..Len(df_combined) :
          /\ ok => n = Len(df_combined)
          /\ store' = Upsert(store, SubSeq(df_combined, 1, n))
          /\ insert_log' = Append(insert_log, IF ok THEN "ok" ELSE "failed")
          /\ IF ok
             THEN /\ calls' = Append(calls, "fg.insert")
                  /\ pc' = "exited" /\ exit_code' = 0
                  /\ attempt' = attempt /\ slept' = slept
             ELSE IF attempt < MaxAttempts
             THEN /\ calls' = calls \o <<"fg.insert", "time.sleep">>
                  /\ pc' = "insert" /\ exit_code' = exit_code
                  /\ attempt' = attempt + 1 /\ slept' = slept + SleepSeconds
             ELSE /\ calls' = Append(calls, "fg.insert")
                  /\ pc' = "exited" /\ exit_code' = 1
                  /\ attempt' = attempt /\ slept' = slept
    /\ UNCHANGED <<training, scheduler, raw_data, run, environment, df_existing, df_train, df_live, df_combined,
                   dtypes, numeric_cols, weather, aqi, failed_calls, store_at_start,
                   history>>

\* what is kept of a run that has ended
RunRecord ==
    [exit_code |-> exit_code, store |-> store,
     no_reading |-> Falsy(weather) \/ Falsy(aqi)]

\* scheduler.py 6-32: the next scheduled run of the script starts, as a new
\* process, after the previous one has exited
NextRun ==
    /\ pc = "exited"
    /\ run < MaxRuns
    /\ run' = run + 1
    /\ history' = Append(history, RunRecord)
    /\ store_at_start' = store
    /\ pc' = "key_check"
    /\ ResetLocals
    /\ UNCHANGED <<training, scheduler, raw_data, environment, store>>

(***************************************************************************)
(* The merge of backfill(), one step per statement (backfill.py 134-142)   *)
(***************************************************************************)
\* what the merge statements leave alone
NotMerge == <<training, scheduler, raw_data, run, environment, store, df_existing, df_train, df_live, weather,
              aqi, failed_calls, attempt, slept, insert_log, calls, exit_code,
              store_at_start, history>>

ConcatStep ==
    /\ pc = "concat"
    /\ df_combined' = PdConcat(<<df_existing, df_train, df_live>>)
    /\ dtypes' = [c \in Columns |-> ConcatDtype(c, <<df_existing, df_train, df_live>>)]
    /\ pc' = "to_datetime"
    /\ UNCHANGED <<numeric_cols, NotMerge>>

ToDatetimeStep ==
    /\ pc = "to_datetime"
    /\ df_combined' = ToDatetime(df_combined)
    /\ pc' = "drop_duplicates"
    /\ UNCHANGED <<dtypes, numeric_cols, NotMerge>>

DropDuplicatesStep ==
    /\ pc = "drop_duplicates"
    /\ df_combined' = DropDuplicatesKeepLast(df_combined)
    /\ pc' = "sort_values"
    /\ UNCHANGED <<dtypes, numeric_cols, NotMerge>>

SortValuesStep ==
    /\ pc = "sort_values"
    /\ df_combined' = SortValues(df_combined)
    /\ pc' = "ffill"
    /\ UNCHANGED <<dtypes, numeric_cols, NotMerge>>

FfillStep ==
    /\ pc = "ffill"
    /\ numeric_cols' = SelectNumeric(dtypes)
    /\ df_combined' = Ffill(df_combined, SelectNumeric(dtypes))
    /\ pc' = "fillna"
    /\ UNCHANGED <<dtypes, NotMerge>>

FillnaStep ==
    /\ pc = "fillna"
    /\ df_combined' = Fillna(df_combined, numeric_cols)
    /\ pc' = "insert"
    /\ UNCHANGED <<dtypes, numeric_cols, NotMerge>>

(***************************************************************************)
(* The scheduler (scheduler.py): one job, run_backfill, every 15 minutes;  *)
(* the loop polls the schedule every 10 seconds.  Time is in seconds.      *)
(***************************************************************************)
IntervalSeconds == 900   \* schedule.every(15).minutes
PollSeconds == 10        \* time.sleep(10)
ShortRun == 40           \* a backfill run shorter than the interval
LongRun == 1000          \* a backfill run longer than the interval
MaxClock == 3000         \* the loop is followed up to this time

Durations == {ShortRun, LongRun}

\* exit statuses of the backfill script: 0, or 1 for an uncaught exception
ExitCodes == {0, 1}

\* scheduler.py 26: the job is registered, first due one interval from now
SchedulerStart ==
    /\ sched_pc = "run_pending"
    /\ clock = 0
    /\ next_run = IntervalSeconds
    /\ children = 0
    /\ starts = <<>>
    /\ finished = <<>>

\* defective variant: the subprocess is started and not waited for
RunPendingPopen ==
    /\ sched_pc = "run_pending"
    /\ IF clock >= next_run
       THEN /\ children' = children + 1
            /\ starts' = Append(starts, clock)
            /\ next_run' = clock + IntervalSeconds
            /\ sched_pc' = "sleep"
       ELSE /\ sched_pc' = "sleep"
            /\ UNCHANGED <<children, starts, next_run>>
    /\ UNCHANGED <<clock, finished, backfill_vars, raw_data, training>>

\* scheduler.py 31, 6-10: schedule.run_pending(); a due job calls
\* run_backfill, which starts the subprocess and blocks in subprocess.run
RunPending ==
    /\ sched_pc = "run_pending"
    /\ IF clock >= next_run
       THEN /\ children' = children + 1
            /\ starts' = Append(starts, clock)
            /\ next_run' = next_run
            /\ sched_pc' = "subprocess"
       ELSE /\ sched_pc' = "sleep"
            /\ UNCHANGED <<children, starts, next_run>>
    /\ UNCHANGED <<clock, finished, backfill_vars, raw_data, training>>

\* defective variant: no except clause, CalledProcessError ends the scheduler
RunBackfillReturnsUncaught ==
    /\ sched_pc = "subprocess"
    /\ \E d \in Durations, returncode \in ExitCodes, dataset \in BOOLEAN :
          /\ clock' = clock + d
          /\ children' = children - 1
          /\ finished' = Append(finished,
                 [at |-> clock + d,
                  returncode |-> returncode,
                  printed |-> IF returncode # 0 THEN "traceback"
                              ELSE IF dataset THEN "size" ELSE "no_file"])
          /\ IF returncode # 0
             THEN sched_pc' = "terminated" /\ next_run' = next_run
             ELSE sched_pc' = "sleep" /\ next_run' = clock + d + IntervalSeconds
    /\ UNCHANGED <<starts, backfill_vars, raw_data, training>>

\* scheduler.py 10-22: the subprocess exits after d seconds; a non-zero
\* status raises CalledProcessError, which is printed, and run_backfill
\* returns; otherwise the dataset size is read and printed when the file
\* exists.  The schedule library then sets next_run one interval from now.
RunBackfillReturns ==
    /\ sched_pc = "subprocess"
    /\ \E d \in Durations, returncode \in ExitCodes, dataset \in BOOLEAN :
          /\ clock' = clock + d
          /\ children' = children - 1
          /\ finished' = Append(finished,
                 [at |-> clock + d,
                  returncode |-> returncode,
                  printed |-> IF returncode # 0 THEN "failed"
                              ELSE IF dataset THEN "size" ELSE "no_file"])
          /\ next_run' = clock + d + IntervalSeconds
          /\ sched_pc' = "sleep"
    /\ UNCHANGED <<starts, backfill_vars, raw_data, training>>

\* scheduler.py 32: time.sleep(10)
Sleep ==
    /\ sched_pc = "sleep"
    /\ clock < MaxClock
    /\ clock' = clock + PollSeconds
    /\ sched_pc' = "run_pending"
    /\ UNCHANGED <<next_run, children, starts, finished, backfill_vars, raw_data, training>>

(***************************************************************************)
(* The feature-group read of the training script (train_tf.py 45-60)       *)
(***************************************************************************)
TrainAttempts == 3       \* for attempt in range(3)
TrainSleepSeconds == 3   \* time.sleep(3)

\* df before any read has bound it
Unbound == [bound |-> FALSE, rows |-> <<>>]

\* one fg.read call: the engine asked for and whether it returned
ReadCall(engine, ok) == [engine |-> engine, ok |-> ok]

\* train_tf.py 46: the script is about to enter the read loop
TrainingStart ==
    /\ train_pc = "read"
    /\ train_attempt = 0
    /\ train_slept = 0
    /\ read_log = <<>>
    /\ train_df = Unbound

\* defective variant: no sleep after the last failed attempt
ReadAttemptNoLastSleep ==
    /\ train_pc = "read"
    /\ \E ok \in BOOLEAN :
          /\ read_log' = Append(read_log, ReadCall("default", ok))
          /\ IF ok
             THEN /\ train_df' = [bound |-> TRUE, rows |-> store]
                  /\ train_pc' = "loaded"
                  /\ UNCHANGED <<train_attempt, train_slept>>
             ELSE IF train_attempt < TrainAttempts - 1
             THEN /\ train_slept' = train_slept + TrainSleepSeconds
                  /\ train_attempt' = train_attempt + 1
                  /\ train_pc' = "read"
                  /\ train_df' = train_df
             ELSE /\ train_pc' = "fallback"
                  /\ UNCHANGED <<train_attempt, train_slept, train_df>>
    /\ UNCHANGED <<backfill_vars, scheduler, raw_data>>

\* train_tf.py 48-56: one pass of the for loop: fg.read() with the default
\* engine; success binds df and breaks; an exception is logged and followed
\* by time.sleep(3); when range(3) is exhausted the else clause is entered
ReadAttempt ==
    /\ train_pc = "read"
    /\ \E ok \in BOOLEAN :
          /\ read_log' = Append(read_log, ReadCall("default", ok))
          /\ IF ok
             THEN /\ train_df' = [bound |-> TRUE, rows |-> store]
                  /\ train_pc' = "loaded"
                  /\ UNCHANGED <<train_attempt, train_slept>>
             ELSE /\ train_slept' = train_slept + TrainSleepSeconds
                  /\ train_df' = train_df
                  /\ IF train_attempt < TrainAttempts - 1
                     THEN train_attempt' = train_attempt + 1 /\ train_pc' = "read"
                     ELSE train_attempt' = train_attempt /\ train_pc' = "fallback"
    /\ UNCHANGED <<backfill_vars, scheduler, raw_data>>

\* train_tf.py 57-58: the else clause: fg.read with the pandas engine, not
\* inside any try: an exception ends the script
FallbackRead ==
    /\ train_pc = "fallback"
    /\ \E ok \in BOOLEAN :
          /\ read_log' = Append(read_log, ReadCall("pandas", ok))
          /\ IF ok
             THEN /\ train_df' = [bound |-> TRUE, rows |-> store]
                  /\ train_pc' = "loaded"
             ELSE /\ train_df' = train_df
                  /\ train_pc' = "exited"
    /\ UNCHANGED <<train_attempt, train_slept, backfill_vars, scheduler, raw_data>>

\* train_tf.py 60-66: df.shape is logged and the preparation of the data
\* begins
LogShape ==
    /\ train_pc = "loaded"
    /\ train_pc' = "prepare"
    /\ UNCHANGED <<train_attempt, train_slept, read_log, train_df,
                   backfill_vars, scheduler, raw_data>>

(***************************************************************************)
(* The raw provider logs and their snapshots                               *)
(***************************************************************************)
Providers == {"openweather", "aqicn"}

\* a table: its rows, and whether it has the column the caller names
Table(rows, has_ts) == [rows |-> rows, has_ts |-> has_ts]

NoFile == [exists |-> FALSE, lines |-> <<>>]

NoSnapshot == [exists |-> FALSE, table |-> Table(<<>>, FALSE)]

NotLoaded == [outcome |-> "not_called", table |-> Table(<<>>, FALSE)]

\* no fetcher and no feature build has run yet
RawDataStart ==
    /\ raw_csv = [p \in Providers |-> NoFile]
    /\ snapshot = [p \in Providers |-> NoSnapshot]
    /\ loaded = [p \in Providers |-> NotLoaded]
    /\ log_at_load = [p \in Providers |-> 0]
    /\ fetch_log = [p \in Providers |-> <<>>]

MaxFetches == 3     \* fetches of one provider

\* lines of a CSV file: the header line and data lines; a data line carries
\* the number of the fetch that produced it, standing for its record
Header == [kind |-> "header", v |-> 0]

DataLine(v) == [kind |-> "row", v |-> v]

\* df.to_csv(output_path, index=False): the file is written anew
ToCsvWrite(v) == [exists |-> TRUE, lines |-> <<Header, DataLine(v)>>]

\* df.to_csv(output_path, mode="a", header=False, index=False)
ToCsvAppend(file, v) ==
    [exists |-> TRUE, lines |-> Append(file.lines, DataLine(v))]

\* fetch_aqicn.py 40-43, fetch_openweather.py 45-48
SaveRecord(file, v) ==
    IF file.exists THEN ToCsvAppend(file, v) ELSE ToCsvWrite(v)

\* pd.read_csv: the first line names the columns, the others are the rows;
\* the logs have no column "ow_timestamp" or "aqicn_timestamp"
ReadCsv(file) ==
    Table([i \in 1..(Len(file.lines) - 1) |-> file.lines[i + 1].v], FALSE)

\* df.to_parquet(parquet_path, index=False)
ToParquet(df) == [exists |-> TRUE, table |-> df]

\* pd.read_parquet(parquet_path)
ReadParquet(file) == file.table

\* features.py 28-29: the timestamp column is added when it is missing
EnsureTimestamp(df) == Table(df.rows, TRUE)

\* answers of the AQICN feed: status, and whether data has "aqi" and "iaqi"
AqicnFeedResponses == [status : {"ok", "error"}, complete : BOOLEAN]

\* answers of OpenWeather: whether both payloads have the fields read
OpenweatherResponses == [complete : BOOLEAN]

\* defective variant: the log is written anew at every fetch
FetchAqicnOverwrite ==
    /\ Len(fetch_log["aqicn"]) < MaxFetches
    /\ \E response \in AqicnFeedResponses :
          LET n == Len(fetch_log["aqicn"]) + 1
          IN  IF response.status # "ok"
              THEN /\ fetch_log' = [fetch_log EXCEPT !["aqicn"] = Append(@, "None")]
                   /\ raw_csv' = raw_csv
              ELSE IF ~response.complete
              THEN /\ fetch_log' = [fetch_log EXCEPT !["aqicn"] = Append(@, "raised")]
                   /\ raw_csv' = raw_csv
              ELSE /\ fetch_log' = [fetch_log EXCEPT !["aqicn"] = Append(@, "df")]
                   /\ raw_csv' = [raw_csv EXCEPT !["aqicn"] = ToCsvWrite(n)]
    /\ UNCHANGED <<snapshot, loaded, log_at_load, backfill_vars, scheduler, training>>

\* fetch_aqicn.py 13-46: a status other than "ok" returns None, a payload
\* without "aqi" or "iaqi" raises KeyError, both before the log is touched
FetchAqicn ==
    /\ Len(fetch_log["aqicn"]) < MaxFetches
    /\ \E response \in AqicnFeedResponses :
          LET n == Len(fetch_log["aqicn"]) + 1
          IN  IF response.status # "ok"
              THEN /\ fetch_log' = [fetch_log EXCEPT !["aqicn"] = Append(@, "None")]
                   /\ raw_csv' = raw_csv
              ELSE IF ~response.complete
              THEN /\ fetch_log' = [fetch_log EXCEPT !["aqicn"] = Append(@, "raised")]
                   /\ raw_csv' = raw_csv
              ELSE /\ fetch_log' = [fetch_log EXCEPT !["aqicn"] = Append(@, "df")]
                   /\ raw_csv' = [raw_csv EXCEPT !["aqicn"] = SaveRecord(@, n)]
    /\ UNCHANGED <<snapshot, loaded, log_at_load, backfill_vars, scheduler, training>>

\* fetch_openweather.py 15-51: a payload without the fields read raises
\* KeyError before the log is touched
FetchOpenweather ==
    /\ Len(fetch_log["openweather"]) < MaxFetches
    /\ \E response \in OpenweatherResponses :
          LET n == Len(fetch_log["openweather"]) + 1
          IN  IF ~response.complete
              THEN /\ fetch_log' = [fetch_log EXCEPT !["openweather"] = Append(@, "raised")]
                   /\ raw_csv' = raw_csv
              ELSE /\ fetch_log' = [fetch_log EXCEPT !["openweather"] = Append(@, "df")]
                   /\ raw_csv' = [raw_csv EXCEPT !["openweather"] = SaveRecord(@, n)]
    /\ UNCHANGED <<snapshot, loaded, log_at_load, backfill_vars, scheduler, training>>

\* defective variant: the CSV case returns the table and writes no snapshot
LoadLatestNoCache ==
    \E p \in Providers :
        /\ log_at_load' = [log_at_load EXCEPT ![p] = Len(ReadCsv(raw_csv[p]).rows)]
        /\ IF snapshot[p].exists
           THEN loaded' = [loaded EXCEPT ![p] =
                    [outcome |-> "returned",
                     table |-> EnsureTimestamp(ReadParquet(snapshot[p]))]]
           ELSE IF raw_csv[p].exists
           THEN loaded' = [loaded EXCEPT ![p] =
                    [outcome |-> "returned",
                     table |-> EnsureTimestamp(ReadCsv(raw_csv[p]))]]
           ELSE loaded' = [loaded EXCEPT ![p] =
                    [outcome |-> "FileNotFoundError", table |-> Table(<<>>, FALSE)]]
        /\ UNCHANGED <<snapshot, raw_csv, fetch_log, backfill_vars, scheduler, training>>

\* defective variant: the CSV log is looked for first and the snapshot is
\* rewritten from it at every call
LoadLatestCsvFirst ==
    \E p \in Providers :
        /\ log_at_load' = [log_at_load EXCEPT ![p] = Len(ReadCsv(raw_csv[p]).rows)]
        /\ IF raw_csv[p].exists
           THEN /\ snapshot' = [snapshot EXCEPT ![p] = ToParquet(ReadCsv(raw_csv[p]))]
                /\ loaded' = [loaded EXCEPT ![p] =
                       [outcome |-> "returned",
                        table |-> EnsureTimestamp(ReadCsv(raw_csv[p]))]]
           ELSE IF snapshot[p].exists
           THEN /\ snapshot' = snapshot
                /\ loaded' = [loaded EXCEPT ![p] =
                       [outcome |-> "returned",
                        table |-> EnsureTimestamp(ReadParquet(snapshot[p]))]]
           ELSE /\ snapshot' = snapshot
                /\ loaded' = [loaded EXCEPT ![p] =
                       [outcome |-> "FileNotFoundError", table |-> Table(<<>>, FALSE)]]
        /\ UNCHANGED <<raw_csv, fetch_log, backfill_vars, scheduler, training>>

\* features.py 11-31, called by build_features for each provider (45-46)
LoadLatestParquetOrCsv ==
    \E p \in Providers :
        /\ log_at_load' = [log_at_load EXCEPT ![p] = Len(ReadCsv(raw_csv[p]).rows)]
        /\ IF snapshot[p].exists
           THEN /\ snapshot' = snapshot
                /\ loaded' = [loaded EXCEPT ![p] =
                       [outcome |-> "returned",
                        table |-> EnsureTimestamp(ReadParquet(snapshot[p]))]]
           ELSE IF raw_csv[p].exists
           THEN /\ snapshot' = [snapshot EXCEPT ![p] = ToParquet(ReadCsv(raw_csv[p]))]
                /\ loaded' = [loaded EXCEPT ![p] =
                       [outcome |-> "returned",
                        table |-> EnsureTimestamp(ReadCsv(raw_csv[p]))]]
           ELSE /\ snapshot' = snapshot
                /\ loaded' = [loaded EXCEPT ![p] =
                       [outcome |-> "FileNotFoundError", table |-> Table(<<>>, FALSE)]]
        /\ UNCHANGED <<raw_csv, fetch_log, backfill_vars, scheduler, training>>

\* the backfill script has not been started
BackfillNotStarted ==
    /\ pc = "key_check"
    /\ run = 1
    /\ secrets = TRUE
    /\ csv_exists = TRUE
    /\ csv_file = <<>>
    /\ store = <<>>
    /\ df_existing = <<>>
    /\ df_train = <<>>
    /\ df_live = <<>>
    /\ df_combined = <<>>
    /\ dtypes = [c \in Columns |-> "float64"]
    /\ numeric_cols = {}
    /\ weather = NoWeather
    /\ aqi = NoAqi
    /\ failed_calls = {}
    /\ attempt = 1
    /\ slept = 0
    /\ insert_log = <<>>
    /\ calls = <<>>
    /\ exit_code = NotExited
    /\ store_at_start = <<>>
    /\ history = <<>>

(***************************************************************************)
(* Specification of the scheduler alone                                    *)
(***************************************************************************)
InitSched ==
    /\ BackfillNotStarted
    /\ RawDataStart
    /\ TrainingStart
    /\ SchedulerStart

NextSched ==
    \/ RunPending
    \/ RunBackfillReturns
    \/ Sleep

SpecSched == InitSched /\ [][NextSched]_vars

(***************************************************************************)
(* Specification of the raw fetchers and the snapshot loader               *)
(***************************************************************************)
InitRaw ==
    /\ BackfillNotStarted
    /\ SchedulerStart
    /\ RawDataStart
    /\ TrainingStart

NextRaw ==
    \/ FetchAqicn
    \/ FetchOpenweather
    \/ LoadLatestParquetOrCsv

SpecRaw == InitRaw /\ [][NextRaw]_vars

(***************************************************************************)
(* Specification of the training script's read, over any store             *)
(***************************************************************************)
InitTrain ==
    /\ pc = "key_check"
    /\ run = 1
    /\ secrets = TRUE
    /\ csv_exists = TRUE
    /\ csv_file = <<>>
    /\ store \in TablesUpTo(StoreRows, MaxRows)
    /\ df_existing = <<>>
    /\ df_train = <<>>
    /\ df_live = <<>>
    /\ df_combined = <<>>
    /\ dtypes = [c \in Columns |-> "float64"]
    /\ numeric_cols = {}
    /\ weather = NoWeather
    /\ aqi = NoAqi
    /\ failed_calls = {}
    /\ attempt = 1
    /\ slept = 0
    /\ insert_log = <<>>
    /\ calls = <<>>
    /\ exit_code = NotExited
    /\ store_at_start = store
    /\ history = <<>>
    /\ SchedulerStart
    /\ RawDataStart
    /\ TrainingStart

NextTrain ==
    \/ ReadAttempt
    \/ FallbackRead
    \/ LogShape

SpecTrain == InitTrain /\ [][NextTrain]_vars

(***************************************************************************)
(* Specification of the merge alone: backfill() at line 134, with any      *)
(* store table, any training CSV and any live frame                        *)
(***************************************************************************)
InitMerge ==
    /\ pc = "concat"
    /\ run = 1
    /\ secrets = TRUE
    /\ csv_exists = TRUE
    /\ csv_file \in TablesUpTo(CsvRows, MaxTrain)
    /\ store \in TablesUpTo(StoreRows, MaxExisting)
    /\ df_existing = store
    /\ df_train = ToDatetime(csv_file)
    /\ df_live \in {<<>>} \cup {<<r>> : r \in LiveRows}
    /\ df_combined = <<>>
    /\ dtypes = [c \in Columns |-> "float64"]
    /\ numeric_cols = {}
    /\ weather = NoWeather
    /\ aqi = NoAqi
    /\ failed_calls = {}
    /\ attempt = 1
    /\ slept = 0
    /\ insert_log = <<>>
    /\ calls = <<>>
    /\ exit_code = NotExited
    /\ store_at_start = store
    /\ history = <<>>
    /\ SchedulerStart
    /\ RawDataStart
    /\ TrainingStart

NextMerge ==
    \/ ConcatStep
    \/ ToDatetimeStep
    \/ DropDuplicatesStep
    \/ SortValuesStep
    \/ FfillStep
    \/ FillnaStep

SpecMerge == InitMerge /\ [][NextMerge]_vars

(***************************************************************************)
(* Specification of the script: MaxRuns runs in succession                 *)
(***************************************************************************)
Init ==
    /\ pc = "key_check"
    /\ run = 1
    /\ secrets \in BOOLEAN
    /\ csv_exists \in BOOLEAN
    /\ csv_file \in TablesUpTo(CsvRows, MaxRows)
    /\ store \in TablesUpTo(StoreRows, MaxRows)
    /\ df_existing = <<>>
    /\ df_train = <<>>
    /\ df_live = <<>>
    /\ df_combined = <<>>
    /\ dtypes = [c \in Columns |-> "float64"]
    /\ numeric_cols = {}
    /\ weather = NoWeather
    /\ aqi = NoAqi
    /\ failed_calls = {}
    /\ attempt = 1
    /\ slept = 0
    /\ insert_log = <<>>
    /\ calls = <<>>
    /\ exit_code = NotExited
    /\ store_at_start = store
    /\ history = <<>>
    /\ SchedulerStart
    /\ RawDataStart
    /\ TrainingStart

Next ==
    \/ KeyCheck
    \/ ReadStore
    \/ LoadTrainingDataset
    \/ FetchLiveData
    \/ ConcatStep
    \/ ToDatetimeStep
    \/ DropDuplicatesStep
    \/ SortValuesStep
    \/ FfillStep
    \/ FillnaStep
    \/ InsertAttempt
    \/ NextRun

Spec == Init /\ [][Next]_vars

(***************************************************************************)
(* Claims about the merged table                                           *)
(***************************************************************************)
\* the rows the merge receives, in concatenation order, timestamps parsed
MergeInputs == ToDatetime(df_existing \o df_train \o df_live)

\* the input rows that supply timestamp t
Suppliers(t) == {i \in 1..Len(MergeInputs) : MergeInputs[i].timestamp_utc = t}

\* the rows of the merged table that carry timestamp t
RowsAt(t) == {i \in 1..Len(df_combined) : df_combined[i].timestamp_utc = t}

Deduplicated == pc \in {"sort_values", "ffill", "fillna", "insert"}

\* C1: the table handed to the feature-store insert holds no two rows with
\* the same timestamp_utc, whatever the store, the CSV and the live row held
\* (duplicates inside one source included).
C1_UniqueTimestamps ==
    pc = "insert" =>
        \A i, j \in 1..Len(df_combined) :
            i # j => df_combined[i].timestamp_utc # df_combined[j].timestamp_utc

C1_Witness ==
    /\ pc = "insert"
    /\ Len(df_train) = 2
    /\ df_train[1].timestamp_utc = df_train[2].timestamp_utc
    /\ Len(df_existing) = 1
    /\ df_existing[1].timestamp_utc = df_train[1].timestamp_utc
    /\ Len(df_live) = 1
    /\ Len(df_combined) = 2

SameValue(a, b) == a = b \/ (IsNa(a) /\ IsNa(b))

\* C2 as stated: for a timestamp several input rows supply, the one row of
\* the merged table (as handed to the insert) carries the values of the
\* input row that is last in the order store, training CSV, live.
C2_LastRowValuesKept ==
    pc = "insert" =>
        \A t \in Instants :
            Cardinality(Suppliers(t)) > 1 =>
                /\ Cardinality(RowsAt(t)) = 1
                /\ \A i \in RowsAt(t) : \A c \in Columns :
                       SameValue(df_combined[i][c],
                                 MergeInputs[SetMax(Suppliers(t))][c])

\* C2 amended: drop_duplicates keeps, for such a timestamp, exactly the row
\* that is last in concatenation order; in the table handed to the insert
\* that row still carries every value the last row supplied, and only the
\* fields the last row lacks are filled in by the fill step.
C2_LastRowWins ==
    \A t \in Instants :
        Cardinality(Suppliers(t)) > 1 =>
            /\ Deduplicated => Cardinality(RowsAt(t)) = 1
            /\ pc \in {"sort_values", "ffill"} =>
                   \A i \in RowsAt(t) : \A c \in Columns :
                       SameValue(df_combined[i][c],
                                 MergeInputs[SetMax(Suppliers(t))][c])
            /\ pc = "insert" =>
                   \A i \in RowsAt(t) : \A c \in Columns :
                       ~IsNa(MergeInputs[SetMax(Suppliers(t))][c]) =>
                           df_combined[i][c] = MergeInputs[SetMax(Suppliers(t))][c]

\* store and CSV both hold timestamp 2 with different AQI values, no live
\* row overrides it: the merged row for 2 has the CSV's value
C2_Witness ==
    /\ pc = "insert"
    /\ df_live = <<>>
    /\ \E i \in 1..Len(df_existing) : \E j \in 1..Len(df_train) :
          /\ df_existing[i].timestamp_utc = 2
          /\ df_train[j].timestamp_utc = 2
          /\ df_existing[i].aqi_aqicn = 1
          /\ df_train[j].aqi_aqicn = 2
          /\ Cardinality(Suppliers(2)) = 2
    /\ \E k \in RowsAt(2) : df_combined[k].aqi_aqicn = 2

\* r_i.timestamp_utc <= r_j.timestamp_utc as pandas compares: any comparison
\* with NaT is False
TsLe(a, b) == a # NaT /\ b # NaT /\ a <= b

\* C3 as stated: every pair of adjacent rows of the merged table satisfies
\* r_i.timestamp_utc <= r_{i+1}.timestamp_utc, for every combination of inputs.
C3_AdjacentAscending ==
    pc = "insert" =>
        \A i \in 1..(Len(df_combined) - 1) :
            TsLe(df_combined[i].timestamp_utc, df_combined[i + 1].timestamp_utc)

\* C3 amended: adjacent rows with parsed timestamps are in ascending order,
\* and a row whose timestamp did not parse (NaT) is the last row of the table.
C3_AscendingNaTLast ==
    pc \in {"ffill", "fillna", "insert"} =>
        \A i \in 1..(Len(df_combined) - 1) :
            /\ df_combined[i].timestamp_utc # NaT
            /\ \/ df_combined[i + 1].timestamp_utc = NaT
               \/ df_combined[i].timestamp_utc <= df_combined[i + 1].timestamp_utc

\* the inputs arrive in descending order with an unparseable row first
C3_Witness ==
    /\ pc = "insert"
    /\ Len(df_combined) = 3
    /\ MergeInputs[1].timestamp_utc = NaT
    /\ MergeInputs[2].timestamp_utc = 2
    /\ MergeInputs[3].timestamp_utc = 1
    /\ df_combined[3].timestamp_utc = NaT

\* C4: in the table handed to the insert no measurement or calendar field of
\* any row is missing, whatever fields the source rows supplied.
C4_NoMissingField ==
    pc = "insert" =>
        \A i \in 1..Len(df_combined) : \A c \in Columns : ~IsNa(df_combined[i][c])


(***************************************************************************)
(* Claims about the run of the script                                      *)
(***************************************************************************)
CallSet == {calls[i] : i \in 1..Len(calls)}

FailedAttempts == {i \in 1..Len(insert_log) : insert_log[i] = "failed"}

\* C5: the insert is attempted at most 3 times in a run; no attempt follows
\* a successful one; the run has waited 8 time-units for each failed attempt
\* among the 1st and 2nd and for no other; a failed 3rd attempt ends the run
\* with the exception propagated (status 1), with no wait after it.
C5_RetryPolicy ==
    /\ Len(insert_log) <= 3
    /\ \A i \in 1..(Len(insert_log) - 1) : insert_log[i] = "failed"
    /\ slept = 8 * Cardinality(FailedAttempts \cap {1, 2})
    /\ Cardinality({i \in 1..Len(calls) : calls[i] = "fg.insert"}) = Len(insert_log)
    /\ 3 \in FailedAttempts =>
           /\ pc = "exited"
           /\ exit_code = 1
           /\ calls[Len(calls)] = "fg.insert"
    /\ (insert_log # <<>> /\ insert_log[Len(insert_log)] = "ok") =>
           pc = "exited" /\ exit_code = 0
    /\ (pc = "insert") => Len(insert_log) < 3

C5_Witness ==
    /\ pc = "exited"
    /\ insert_log = <<"failed", "failed", "failed">>
    /\ slept = 16
    /\ exit_code = 1

\* C6: when all 3 insert attempts of a run fail, the run ends with a non-zero
\* status and the store holds exactly the rows it held before the run.
C6_FailedRunLeavesStoreUntouched ==
    (pc = "exited" /\ FailedAttempts = {1, 2, 3}) =>
        exit_code # 0 /\ store = store_at_start

\* C7: two successful runs in succession over the same training CSV, neither
\* with a live reading: the store after the second run equals, row for row,
\* the store after the first.
C7_RerunIdempotent ==
    (/\ run = 2
     /\ pc = "exited"
     /\ exit_code = 0
     /\ history[1].exit_code = 0
     /\ history[1].no_reading
     /\ Falsy(weather) \/ Falsy(aqi)) =>
        store = history[1].store

\* the first run added the CSV's row to the store, the second changed nothing
C7_Witness ==
    /\ run = 2
    /\ pc = "exited"
    /\ exit_code = 0
    /\ history[1].exit_code = 0
    /\ history[1].no_reading
    /\ Falsy(weather) \/ Falsy(aqi)
    /\ Len(store) = 2
    /\ store = history[1].store
    /\ \E i \in 1..2 : store[i].aqi_aqicn = 0

LiveFetchDone == "aqi.get" \in CallSet

\* C8: when a live provider call has failed (network error, timeout, HTTP
\* error, malformed JSON) the live frame is empty, the run goes on to the
\* merge and the insert, every row of the merged table has a timestamp of a
\* store or CSV row, and the run can end only through the upload loop: with
\* status 0 once an insert succeeds, with status 1 only after three failed
\* inserts.
C8_LiveFailureNotFatal ==
    (LiveFetchDone /\ failed_calls # {}) =>
        /\ df_live = <<>>
        /\ (Deduplicated \/ insert_log # <<>>) =>
               Timestamps(df_combined) \subseteq
                   Timestamps(df_existing) \cup Timestamps(df_train)
        /\ pc = "exited" =>
               /\ insert_log # <<>>
               /\ exit_code = 0 <=> insert_log[Len(insert_log)] = "ok"
               /\ exit_code # 0 => FailedAttempts = {1, 2, 3}

\* the weather call timed out; store and CSV rows were merged and inserted
C8_Witness ==
    /\ pc = "exited"
    /\ "weather" \in failed_calls
    /\ exit_code = 0
    /\ Len(df_existing) = 1
    /\ Len(df_train) = 1
    /\ Len(df_combined) = 2
    /\ store = df_combined

\* C9: when both providers answer but a payload lacks expected fields (a
\* weather body without "main", air-quality data that is not a mapping) the
\* live frame is empty and the run is not aborted.
C9_MissingFieldsGiveNoLiveRow ==
    (/\ LiveFetchDone
     /\ failed_calls = {}
     /\ (~Falsy(weather) /\ ~weather.main) \/ aqi.type = "str") =>
        /\ df_live = <<>>
        /\ ~(pc = "exited" /\ insert_log = <<>>)

\* C10: with a required secret missing the run ends with an error before any
\* external call; with the training CSV absent it ends with an error after
\* the store read and before the live fetch and any insert; in both cases
\* the store is left as it was.
C10_ConfigErrorsAbortEarly ==
    /\ ~secrets =>
           /\ calls = <<>>
           /\ pc \in {"key_check", "exited"}
           /\ pc = "exited" => exit_code = 1
    /\ (secrets /\ ~csv_exists) =>
           /\ CallSet \subseteq {"hopsworks.login", "fg.read"}
           /\ pc \in {"key_check", "read_store", "load_training_dataset", "exited"}
           /\ pc = "exited" => exit_code = 1
    /\ (~secrets \/ ~csv_exists) =>
           /\ insert_log = <<>>
           /\ store = store_at_start

C10_Witness ==
    /\ secrets
    /\ ~csv_exists
    /\ pc = "exited"
    /\ exit_code = 1
    /\ calls = <<"hopsworks.login", "fg.read">>
    /\ store # <<>>

(***************************************************************************)
(* Further claims about the merged table                                   *)
(***************************************************************************)
\* the instants (parsed timestamps) the input rows supply
InputInstants == Timestamps(MergeInputs) \ {NaT}

\* C11: the timestamps of the merged table are exactly the parseable
\* timestamps of the store rows, the CSV rows and the live row: none is lost,
\* none is invented, and each has one row.
C11_TimestampsAreUnion ==
    Deduplicated =>
        /\ Timestamps(df_combined) \ {NaT} = InputInstants
        /\ \A t \in InputInstants : Cardinality(RowsAt(t)) = 1

\* store 1, CSV 1 and 2, live 2: two rows, 1 and 2
C11_Witness ==
    /\ pc = "insert"
    /\ Len(df_existing) = 1 /\ df_existing[1].timestamp_utc = 1
    /\ Len(df_train) = 2
    /\ df_train[1].timestamp_utc = 1 /\ df_train[2].timestamp_utc = 2
    /\ Len(df_live) = 1 /\ df_live[1].timestamp_utc = 2
    /\ Len(df_combined) = 2

\* the input rows whose timestamp did not parse
NaTInputs == Suppliers(NaT)

\* C16 as stated: if k input rows have unparseable timestamps, all k of them
\* are present in the table after deduplication and sorting.
C16_AllNaTRowsRetained ==
    Deduplicated => Cardinality(RowsAt(NaT)) = Cardinality(NaTInputs)

\* C16 amended: unparseable timestamps all become NaT, which drop_duplicates
\* treats as one key like any other: of k >= 1 such input rows exactly one is
\* present after deduplication and sorting, the last in concatenation order,
\* and the other k - 1 are dropped.
C16_OneNaTRowRetained ==
    /\ Deduplicated =>
           Cardinality(RowsAt(NaT)) = IF NaTInputs = {} THEN 0 ELSE 1
    /\ (pc \in {"sort_values", "ffill"} /\ NaTInputs # {}) =>
           \A i \in RowsAt(NaT) : \A c \in Columns :
               SameValue(df_combined[i][c], MergeInputs[SetMax(NaTInputs)][c])

\* two CSV rows with unparseable timestamps: the second alone is kept
C16_Witness ==
    /\ pc = "ffill"
    /\ Len(df_train) = 2
    /\ df_train[1].timestamp_utc = NaT /\ df_train[2].timestamp_utc = NaT
    /\ df_train[1].aqi_aqicn = 1 /\ df_train[2].aqi_aqicn = 2
    /\ Len(df_existing) = 1
    /\ Len(df_combined) = 2
    /\ df_combined[2].timestamp_utc = NaT /\ df_combined[2].aqi_aqicn = 2

\* the table as it enters the fill step (backfill.py 134-137)
PreFill ==
    SortValues(DropDuplicatesKeepLast(ToDatetime(
        PdConcat(<<df_existing, df_train, df_live>>))))

\* C17: in the filled table a value present before the fill is unchanged,
\* and a value missing before the fill equals the nearest preceding present
\* value of its column, or zero when no preceding row has one.
C17_FillFromPrecedingOrZero ==
    pc = "insert" =>
        /\ Len(df_combined) = Len(PreFill)
        /\ \A i \in 1..Len(df_combined) : \A c \in Columns :
               LET prev == {j \in 1..(i - 1) : ~IsNa(PreFill[j][c])}
               IN  df_combined[i][c] =
                       IF ~IsNa(PreFill[i][c]) THEN PreFill[i][c]
                       ELSE IF prev # {} THEN PreFill[SetMax(prev)][c]
                       ELSE 0

\* C18: in every row of the consolidated table the calendar field hour is
\* the hour of the row's own timestamp_utc, also when the row's source did
\* not supply it.
C18_CalendarFromOwnTimestamp ==
    pc = "insert" =>
        \A i \in 1..Len(df_combined) :
            df_combined[i].timestamp_utc # NaT =>
                df_combined[i].hour = HourOf(df_combined[i].timestamp_utc)

(***************************************************************************)
(* Further claims about the run of the script                              *)
(***************************************************************************)
\* positions of a call in the run's trace
CallsOf(name) == {i \in 1..Len(calls) : calls[i] = name}

\* the calls that gather the inputs of the merge
GatherCalls == {"hopsworks.login", "fg.read", "read_csv", "weather.get", "aqi.get"}

\* C19: within one run the store read, the CSV load and the live fetch each
\* happen at most once, and exactly once and earlier than the first insert
\* attempt when an insert is attempted; once the first insert is due the
\* merged table is never recomputed: every attempt submits the same table.
C19_GatherOnceThenSameTable ==
    /\ [](\A name \in GatherCalls :
             /\ Cardinality(CallsOf(name)) <= 1
             /\ (pc = "insert" \/ CallsOf("fg.insert") # {}) =>
                    /\ Cardinality(CallsOf(name)) = 1
                    /\ \A i \in CallsOf(name) : \A j \in CallsOf("fg.insert") : i < j)
    /\ [][pc = "insert" =>
             /\ df_combined' = df_combined
             /\ pc' \in {"insert", "exited"}]_vars

\* two failed attempts, then a successful one, of a table of two rows
C19_Witness ==
    /\ pc = "exited"
    /\ insert_log = <<"failed", "failed", "ok">>
    /\ Len(df_combined) = 2
    /\ store = df_combined

C13_AtMostOneRunInFlight ==
    /\ children <= 1
    /\ children = Len(starts) - Len(finished)
    /\ \A k \in 1..Len(finished) :
           k < Len(starts) => starts[k + 1] >= finished[k].at

\* the first run lasted longer than the interval and a second one is running
C13_Witness ==
    /\ Len(starts) = 2
    /\ Len(finished) = 1
    /\ finished[1].at - starts[1] > IntervalSeconds
    /\ children = 1

(***************************************************************************)
(* Claims about the raw logs and the snapshot loader                       *)
(***************************************************************************)
\* a call of the loader for provider p has just returned or raised
LoadedNow(p) == loaded'[p] # loaded[p] \/ log_at_load'[p] # log_at_load[p]

\* C14: the loader returns the rows of the snapshot when the snapshot
\* exists; otherwise, when the CSV log exists, it returns the rows of the CSV
\* and writes the CSV's table as the snapshot; when neither exists it raises
\* FileNotFoundError and writes nothing.  A table it returns has the
\* timestamp column the caller names; no file it writes does.
C14_LoaderSourceAndCache ==
    [][\A p \in Providers : LoadedNow(p) =>
          /\ raw_csv' = raw_csv
          /\ loaded'[p].outcome = "returned" => loaded'[p].table.has_ts
          /\ snapshot[p].exists =>
                 /\ loaded'[p].outcome = "returned"
                 /\ loaded'[p].table.rows = snapshot[p].table.rows
                 /\ snapshot' = snapshot
          /\ (~snapshot[p].exists /\ raw_csv[p].exists) =>
                 /\ loaded'[p].outcome = "returned"
                 /\ loaded'[p].table.rows = ReadCsv(raw_csv[p]).rows
                 /\ snapshot' = [snapshot EXCEPT ![p] =
                        [exists |-> TRUE, table |-> ReadCsv(raw_csv[p])]]
          /\ (~snapshot[p].exists /\ ~raw_csv[p].exists) =>
                 /\ loaded'[p].outcome = "FileNotFoundError"
                 /\ snapshot' = snapshot]_vars

\* the AQICN log was loaded from its CSV and cached; OpenWeather has neither
\* file and its load raised
C14_Witness ==
    /\ loaded["aqicn"].outcome = "returned"
    /\ loaded["aqicn"].table.rows = <<1, 2>>
    /\ snapshot["aqicn"].exists
    /\ snapshot["aqicn"].table.rows = <<1, 2>>
    /\ loaded["openweather"].outcome = "FileNotFoundError"
    /\ ~snapshot["openweather"].exists

\* data lines a log holds
DataLines(p) == {i \in 1..Len(raw_csv[p].lines) : raw_csv[p].lines[i].kind = "row"}

\* the fetches of a provider that returned a frame
Successes(p) == {i \in 1..Len(fetch_log[p]) : fetch_log[p][i] = "df"}

\* C15: a provider's CSV log is append-only: a successful fetch adds one
\* data line at the end (after the header when it creates the file), the
\* header is the first line and the only header, earlier lines never change,
\* and a fetch that returns None or raises leaves the log as it was.
C15_LogAppendOnly ==
    /\ [](\A p \in Providers :
             /\ raw_csv[p].exists = (Successes(p) # {})
             /\ raw_csv[p].exists =>
                    /\ raw_csv[p].lines[1] = Header
                    /\ DataLines(p) = 2..Len(raw_csv[p].lines)
             /\ Cardinality(DataLines(p)) = Cardinality(Successes(p))
             /\ \A i \in DataLines(p) : raw_csv[p].lines[i].v \in Successes(p))
    /\ [][\A p \in Providers :
             /\ SubSeq(raw_csv'[p].lines, 1, Len(raw_csv[p].lines)) = raw_csv[p].lines
             /\ Successes(p)' = Successes(p) => raw_csv'[p] = raw_csv[p]
             /\ Successes(p)' # Successes(p) =>
                    Len(raw_csv'[p].lines) =
                        Len(raw_csv[p].lines) + (IF raw_csv[p].exists THEN 1 ELSE 2)]_vars

\* AQICN: a fetch, a fetch answered with an error status, a fetch
C15_Witness ==
    /\ fetch_log["aqicn"] = <<"df", "None", "df">>
    /\ raw_csv["aqicn"].lines = <<Header, DataLine(1), DataLine(3)>>
    /\ fetch_log["openweather"] = <<"raised", "df">>
    /\ raw_csv["openweather"].lines = <<Header, DataLine(2)>>

\* C20: once the loader has created a provider's snapshot nothing rewrites
\* or removes it, and every later call returns its rows: rows the fetcher
\* appends to the CSV log afterwards never appear in what is loaded.
C20_SnapshotNeverRefreshed ==
    /\ [](\A p \in Providers :
             loaded[p].outcome = "returned" =>
                 /\ snapshot[p].exists
                 /\ loaded[p].table.rows = snapshot[p].table.rows)
    /\ [][\A p \in Providers :
             snapshot[p].exists =>
                 /\ snapshot'[p] = snapshot[p]
                 /\ loaded'[p].outcome = "returned"]_vars

\* the snapshot was made when the log held one row; a load made when the log
\* held three returned that one row
C20_Witness ==
    /\ snapshot["openweather"].table.rows = <<1>>
    /\ log_at_load["openweather"] = 3
    /\ loaded["openweather"].outcome = "returned"
    /\ loaded["openweather"].table.rows = <<1>>
    /\ ReadCsv(raw_csv["openweather"]).rows = <<1, 2, 3>>

(***************************************************************************)
(* Claims about the training script                                        *)
(***************************************************************************)
\* the calls of the read log made with an engine
ReadsWith(engine) == {i \in 1..Len(read_log) : read_log[i].engine = engine}

FailedReads == {i \in 1..Len(read_log) : ~read_log[i].ok}

\* C21: the read makes at most 3 default-engine attempts and none after a
\* success; it has slept 3 units for every failed default attempt, the 3rd
\* included; the pandas-engine read is made at most once, and is made or due
\* exactly when 3 default attempts have failed; a failed pandas-engine read
\* ends the script; the script goes beyond the read only with df bound to
\* the table read.
C21_ReadRetryThenFallback ==
    /\ Cardinality(ReadsWith("default")) <= 3
    /\ \A i \in 1..(Len(read_log) - 1) : ~read_log[i].ok
    /\ train_slept = 3 * Cardinality(FailedReads \cap ReadsWith("default"))
    /\ Cardinality(ReadsWith("pandas")) <= 1
    /\ ReadsWith("pandas") \subseteq {4}
    /\ (ReadsWith("pandas") # {} \/ train_pc = "fallback") <=>
           {1, 2, 3} \subseteq (FailedReads \cap ReadsWith("default"))
    /\ (FailedReads \cap ReadsWith("pandas")) # {} =>
           train_pc = "exited" /\ ~train_df.bound
    /\ train_pc \in {"loaded", "prepare"} =>
           /\ train_df.bound
           /\ train_df.rows = store
           /\ read_log[Len(read_log)].ok
    /\ train_pc = "exited" => ~train_df.bound

\* three failed attempts, nine units slept, the fallback read succeeded and
\* the script went on with a table of one row
C21_Witness ==
    /\ train_pc = "prepare"
    /\ Len(read_log) = 4
    /\ FailedReads = {1, 2, 3}
    /\ read_log[4] = ReadCall("pandas", TRUE)
    /\ train_slept = 9
    /\ Len(train_df.rows) = 1

====
